---- MODULE Spec2Model ----
(***************************************************************************)
(* A model of corellm's LLM session (src/corellm/client.py): the           *)
(* conversation memory, the four request modes and the generator-based     *)
(* streaming protocol.                                                     *)
(*                                                                         *)
(* Python lists are objects: self.memory is a reference, get_memory        *)
(* returns that reference and set_memory stores the caller's.  The model   *)
(* keeps a heap of list objects so that aliasing is visible.               *)
(*                                                                         *)
(* The llama_cpp backend is opaque: every create_chat_completion call      *)
(* either raises or answers, with a text (blocking) or with a lazy         *)
(* sequence of chunks (streaming), chosen nondeterministically.  The       *)
(* backend reads its messages argument during the call.                    *)
(***************************************************************************)
EXTENDS Naturals, Sequences, FiniteSets, TLC

VARIABLES
    system_prompt,  \* [session -> text]        self.system_prompt
    memory,         \* [session -> list id]     self.memory (a reference)
    heap,           \* [list id -> Seq(Turn)]   the list objects
    held,           \* a list reference in a caller's variable, 0 for none
    gen,            \* [handle -> generator frame] the _generator objects
    last,           \* the create_chat_completion call of the step just taken
    started         \* history: the chat_stream call in progress, see SoloNext

vars == <<system_prompt, memory, heap, held, gen, last, started>>

----------------------------------------------------------------------------
(* Bounds *)

MaxLen == 5         \* longest list the model lets a list object grow to
MaxChunks == 2      \* most chunks one backend stream delivers
MaxHandles == 2     \* generator objects created in one behaviour

Handles == 1 .. MaxHandles
ListIds == {1, 2, 3}

DefaultPrompt == "S"                \* the system_prompt given to __init__
NewPrompts == {"T"}                 \* arguments of modify_system_prompt
Prompts == {"p", "q"}               \* arguments of chat / prompt / *_stream
Replies == {"r"}                    \* texts of a blocking completion

(* The non-empty delta texts of a backend stream, in the order it delivers
   them: every stream spells a prefix of Script, with empty deltas anywhere
   in between. *)
Script == <<"a", "b", "c", "d">>
Tokens == {Script[i] : i \in 1 .. Len(Script)}

----------------------------------------------------------------------------
(* Turns *)

Turn(role, content) == [role |-> role, content |-> content]
SystemTurn(text) == Turn("system", text)
UserTurn(text) == Turn("user", text)
AssistantTurn(text) == Turn("assistant", text)

(* Backend stream chunks: chunk["choices"][0]["delta"].  A delta carries a
   content text, possibly empty, or no content key at all (a role-only
   delta). *)
Chunks ==
    {[delta |-> [content |-> t]] : t \in Tokens \cup {""}}
        \cup {[delta |-> [role |-> "assistant"]]}

(* delta.get("content", "") *)
DeltaContent(chunk) ==
    IF "content" \in DOMAIN chunk.delta THEN chunk.delta.content ELSE ""

----------------------------------------------------------------------------
(* The heap of list objects *)

Sessions == DOMAIN memory

Mem(s) == heap[memory[s]]

(* The references that keep a list object alive, in a fixed order. *)
Refs(mem, hd) ==
    LET n == Cardinality(DOMAIN mem)
    IN  [i \in 1 .. (n + 1) |-> IF i <= n THEN mem[i] ELSE hd]

Live(mem, hd) == {Refs(mem, hd)[i] : i \in DOMAIN Refs(mem, hd)} \ {0}

(* An id no reference in (mem, hd) uses: the object a list display or
   list.copy() creates. *)
NewList(mem, hd) == CHOOSE l \in ListIds : l \notin Live(mem, hd)

(* Object identities carry no meaning: lists are renumbered in the order of
   their first reference, and unreferenced lists are collected. *)
Rank(mem, hd, l) ==
    LET r == Refs(mem, hd)
        first == CHOOSE i \in DOMAIN r : r[i] = l /\ \A j \in DOMAIN r : r[j] = l => i <= j
    IN  Cardinality({r[j] : j \in 1 .. first} \ {0})

Renumber(mem, hd, l) == IF l = 0 THEN 0 ELSE Rank(mem, hd, l)

Collect(hp, mem, hd) ==
    [k \in ListIds |->
        IF \E l \in Live(mem, hd) : Rank(mem, hd, l) = k
        THEN hp[CHOOSE l \in Live(mem, hd) : Rank(mem, hd, l) = k]
        ELSE <<>>]

(* The heap, the sessions' references and the caller's reference after a
   step that leaves them as (hp, mem, hd). *)
Store(hp, mem, hd) ==
    /\ heap' = Collect(hp, mem, hd)
    /\ memory' = [s \in DOMAIN mem |-> Renumber(mem, hd, mem[s])]
    /\ held' = Renumber(mem, hd, hd)

(* list.append on the object l *)
ListAppend(hp, l, turn) == [hp EXCEPT ![l] = Append(@, turn)]

----------------------------------------------------------------------------
(* Generator frames *)

(* A _generator object: where it stands (pc), the arguments its closure
   holds, its local full_message, and what its consumer has seen of it: the
   fragments it yielded and how the last next() on it ended.  tokens are the
   values the loop variable token has taken. *)
NoGen ==
    [pc |-> "unused", kind |-> "none", sess |-> 0, prompt |-> "",
     use_memory |-> FALSE, tokens |-> <<>>, full_message |-> "",
     yielded |-> <<>>, out |-> "none"]

(* What a create_chat_completion call of the step just taken received and
   how the operation that made it ended. *)
Call(op, messages, raised, reply, ret) ==
    [op |-> op, messages |-> messages, raised |-> raised, reply |-> reply, ret |-> ret]

NoCall == Call("none", <<>>, FALSE, "", "")

(* LLM.__init__ *)
Construct(sp) ==
    /\ system_prompt = [s \in {1} |-> sp]
    /\ memory = [s \in {1} |-> 1]
    /\ heap = [l \in ListIds |-> IF l = 1 THEN <<SystemTurn(sp)>> ELSE <<>>]

(* No chat_stream call is in progress. *)
NotStarted == [live |-> FALSE, handle |-> 0, prompt |-> "", memory |-> <<>>]

Init ==
    /\ Construct(DefaultPrompt)
    /\ held = 0
    /\ gen = [h \in Handles |-> NoGen]
    /\ last = NoCall
    /\ started = NotStarted

----------------------------------------------------------------------------
(* The backend: create_chat_completion raises or answers. *)

Raises == "<raises>"
Completions == Replies \cup {Raises}

(* Chat with the two appends in the wrong order. *)
ChatAnswersFirst(s, p, response) ==
    /\ Len(Mem(s)) + 2 <= MaxLen
    /\ LET hp1 == ListAppend(heap, memory[s], UserTurn(p))
           messages == hp1[memory[s]]
       IN  IF response = Raises
           THEN /\ Store(hp1, memory, held)
                /\ last' = Call("chat", messages, TRUE, "", "")
           ELSE /\ Store(ListAppend(ListAppend(heap, memory[s], AssistantTurn(response)),
                                    memory[s], UserTurn(p)),
                         memory, held)
                /\ last' = Call("chat", messages, FALSE, response, response)
    /\ UNCHANGED <<system_prompt, gen>>

(* Chat that appends the user Turn twice. *)
ChatDuplicates(s, p, response) ==
    /\ Len(Mem(s)) + 2 <= MaxLen
    /\ LET hp1 == ListAppend(ListAppend(heap, memory[s], UserTurn(p)),
                             memory[s], UserTurn(p))
           messages == hp1[memory[s]]
       IN  IF response = Raises
           THEN /\ Store(hp1, memory, held)
                /\ last' = Call("chat", messages, TRUE, "", "")
           ELSE /\ Store(ListAppend(hp1, memory[s], AssistantTurn(response)),
                         memory, held)
                /\ last' = Call("chat", messages, FALSE, response, response)
    /\ UNCHANGED <<system_prompt, gen>>

(* Chat that takes the user Turn back when the backend call raises. *)
ChatRollsBack(s, p, response) ==
    /\ Len(Mem(s)) + 2 <= MaxLen
    /\ LET hp1 == ListAppend(heap, memory[s], UserTurn(p))
           messages == hp1[memory[s]]
       IN  IF response = Raises
           THEN /\ Store(heap, memory, held)
                /\ last' = Call("chat", messages, TRUE, "", "")
           ELSE /\ Store(ListAppend(hp1, memory[s], AssistantTurn(response)),
                         memory, held)
                /\ last' = Call("chat", messages, FALSE, response, response)
    /\ UNCHANGED <<system_prompt, gen>>

(* LLM.chat *)
Chat(s, p, response) ==
    /\ Len(Mem(s)) + 2 <= MaxLen
    /\ LET hp1 == ListAppend(heap, memory[s], UserTurn(p))
           messages == hp1[memory[s]]
       IN  IF response = Raises
           THEN /\ Store(hp1, memory, held)
                /\ last' = Call("chat", messages, TRUE, "", "")
           ELSE LET message == response
                IN  /\ Store(ListAppend(hp1, memory[s], AssistantTurn(message)),
                             memory, held)
                    /\ last' = Call("chat", messages, FALSE, response, message)
    /\ UNCHANGED <<system_prompt, gen>>

(* The message list of the two ephemeral modes: self.memory.copy() plus the
   user Turn, or the cached prompt text plus the user Turn. *)
(* temp_memory without the history, whatever use_memory says *)
TempMemoryNoHistory(s, p, use_memory) ==
    <<SystemTurn(system_prompt[s]), UserTurn(p)>>

(* Prompt with temp_memory = self.memory where the code copies the list *)
PromptNoCopy(s, p, use_memory, response) ==
    /\ LET hp1 == ListAppend(heap, memory[s], UserTurn(p))
           temp_memory == IF use_memory THEN hp1[memory[s]]
                          ELSE <<SystemTurn(system_prompt[s]), UserTurn(p)>>
       IN  /\ use_memory => Len(Mem(s)) < MaxLen
           /\ Store(IF use_memory THEN hp1 ELSE heap, memory, held)
           /\ IF response = Raises
              THEN last' = Call("prompt", temp_memory, TRUE, "", "")
              ELSE last' = Call("prompt", temp_memory, FALSE, response, response)
    /\ UNCHANGED <<system_prompt, gen>>

TempMemory(s, p, use_memory) ==
    IF use_memory
    THEN Append(Mem(s), UserTurn(p))
    ELSE <<SystemTurn(system_prompt[s]), UserTurn(p)>>

(* LLM.prompt *)
Prompt(s, p, use_memory, response) ==
    /\ LET temp_memory == TempMemory(s, p, use_memory)
       IN  IF response = Raises
           THEN last' = Call("prompt", temp_memory, TRUE, "", "")
           ELSE last' = Call("prompt", temp_memory, FALSE, response, response)
    /\ UNCHANGED <<system_prompt, memory, heap, held, gen>>

----------------------------------------------------------------------------
(* The streaming modes *)

ChunkSeqs(n) == UNION {[1 .. k -> Chunks] : k \in 0 .. n}

(* What the backend does during one resume of a generator: whether the
   stream opens (asked only on the first), the chunks its iterator delivers,
   and whether it then raises instead of ending. *)
Backend(opens, chunks, raises) == [opens |-> opens, chunks |-> chunks, raises |-> raises]

Backends == {Backend(o, cs, r) : o \in BOOLEAN, cs \in ChunkSeqs(MaxChunks), r \in BOOLEAN}

(* The chunks one resume takes from the backend iterator: the for loop runs
   on until a chunk carries a non-empty token, which it yields. *)
RECURSIVE Consumed(_)
Consumed(cs) ==
    IF cs = <<>> THEN <<>>
    ELSE IF DeltaContent(Head(cs)) # "" THEN <<Head(cs)>>
    ELSE <<Head(cs)>> \o Consumed(Tail(cs))

(* The loop without its "if token:" test: every chunk is yielded. *)
YieldsAny(cs) == cs # <<>>

(* The chunk the loop stops at carries a token: "if token:" ... yield *)
YieldsToken(cs) == cs # <<>> /\ DeltaContent(cs[Len(cs)]) # ""

(* token = delta.get("content", "") for each chunk of cs *)
TokensOf(cs) == [i \in 1 .. Len(cs) |-> DeltaContent(cs[i])]

NonEmpty(token) == token # ""

(* The backend's stream, of which it has delivered the tokens seen, goes on
   with the chunks cs. *)
Scripted(seen, cs) ==
    LET texts == SelectSeq(seen \o TokensOf(cs), NonEmpty)
    IN  /\ Len(texts) <= Len(Script)
        /\ texts = SubSeq(Script, 1, Len(texts))

(* One resume, one backend behaviour: the iterator is asked no more than
   the loop consumes. *)
Resumes(b) ==
    /\ Consumed(b.chunks) = b.chunks
    /\ YieldsToken(b.chunks) => ~b.raises
    /\ ~b.opens => b.chunks = <<>> /\ b.raises

Resumptions == {b \in Backends : Resumes(b)}

(* full_message = token where the code has full_message += token *)
RECURSIVE AccumulateOverwrites(_, _)
AccumulateOverwrites(full_message, cs) ==
    IF cs = <<>> THEN full_message
    ELSE LET token == DeltaContent(Head(cs))
         IN  AccumulateOverwrites(IF token # "" THEN token ELSE full_message, Tail(cs))

(* full_message after the loop body has run on each chunk of cs *)
RECURSIVE Accumulate(_, _)
Accumulate(full_message, cs) ==
    IF cs = <<>> THEN full_message
    ELSE LET token == DeltaContent(Head(cs))
         IN  Accumulate(IF token # "" THEN full_message \o token ELSE full_message,
                        Tail(cs))

FreeHandle(h) ==
    /\ gen[h].pc = "unused"
    /\ \A k \in Handles : k < h => gen[k].pc # "unused"

(* chat_stream with the append of the user Turn outside the generator: it
   runs when chat_stream is called. *)
ChatStreamEager(s, p, h) ==
    /\ FreeHandle(h)
    /\ gen' = [gen EXCEPT ![h] = [NoGen EXCEPT !.pc = "created", !.kind = "chat",
                                               !.sess = s, !.prompt = p]]
    /\ last' = NoCall
    /\ Store(ListAppend(heap, memory[s], UserTurn(p)), memory, held)
    /\ UNCHANGED system_prompt

(* chat_stream(prompt, print_stream=False): builds the generator object and
   returns it; no line of its body has run. *)
ChatStream(s, p, h) ==
    /\ FreeHandle(h)
    /\ gen' = [gen EXCEPT ![h] = [NoGen EXCEPT !.pc = "created", !.kind = "chat",
                                               !.sess = s, !.prompt = p]]
    /\ last' = NoCall
    /\ UNCHANGED <<system_prompt, memory, heap, held>>

(* prompt_stream(prompt, print_stream=False, use_memory) *)
PromptStream(s, p, use_memory, h) ==
    /\ FreeHandle(h)
    /\ gen' = [gen EXCEPT ![h] = [NoGen EXCEPT !.pc = "created", !.kind = "prompt",
                                               !.sess = s, !.prompt = p,
                                               !.use_memory = use_memory]]
    /\ last' = NoCall
    /\ UNCHANGED <<system_prompt, memory, heap, held>>

(* A generator that has returned ("done"), raised ("failed") or been closed,
   at a yield ("abandoned") or before it ever ran ("closed"): its frame is
   gone, and next() on it raises StopIteration. *)
Finished(pc, out) == [NoGen EXCEPT !.pc = pc, !.out = out]

(* The loop with full_message = "" inside it: the text starts again at
   every chunk, and the frame keeps the last token only. *)
LoopedRestarts(g, b, full_message) ==
    IF YieldsToken(b.chunks)
    THEN [g EXCEPT !.pc = "suspended",
                   !.tokens = @ \o TokensOf(b.chunks),
                   !.full_message = DeltaContent(b.chunks[Len(b.chunks)]),
                   !.yielded = Append(@, DeltaContent(b.chunks[Len(b.chunks)])),
                   !.out = "yield"]
    ELSE IF b.raises THEN Finished("failed", "raise") ELSE Finished("done", "stop")

(* The frame after the for loop has run from where it stood until it yields,
   ends or the backend iterator raises. *)
Looped(g, b, full_message) ==
    IF YieldsToken(b.chunks)
    THEN [g EXCEPT !.pc = "suspended",
                   !.tokens = @ \o TokensOf(b.chunks),
                   !.full_message = full_message,
                   !.yielded = Append(@, DeltaContent(b.chunks[Len(b.chunks)])),
                   !.out = "yield"]
    ELSE IF b.raises THEN Finished("failed", "raise") ELSE Finished("done", "stop")

(* The append placed inside the loop: every yield commits the text so far. *)
CommitsEarly(g) == g.pc \in {"done", "suspended"}

(* The append placed where a failing backend iterator reaches it too. *)
CommitsAlways(g) == g.pc \in {"done", "failed"}

(* The assistant Turn is appended after the loop, which only a generator
   that ran its loop to the end of the backend stream reaches. *)
Commits(g) == g.pc = "done"

(* next() on a chat_stream generator *)
NextChat(h, b) ==
    /\ gen[h].pc # "unused"
    /\ gen[h].kind \in {"chat", "none"}
    /\ Scripted(gen[h].tokens, b.chunks)
    /\ Len(gen[h].tokens) + Len(b.chunks) <= MaxChunks
    /\ LET g == gen[h]
           s == g.sess
           first == g.pc = "created"
           hp1 == IF first THEN ListAppend(heap, memory[s], UserTurn(g.prompt)) ELSE heap
           full_message == Accumulate(g.full_message, b.chunks)
           g2 == Looped(g, b, full_message)
       IN  IF g.pc \in {"created", "suspended"}
           THEN /\ first => Len(Mem(s)) < MaxLen
                /\ ~first => b.opens
                /\ g2.pc = "done" => Len(hp1[memory[s]]) < MaxLen
                /\ gen' = [gen EXCEPT ![h] = g2]
                /\ Store(IF Commits(g2)
                         THEN ListAppend(hp1, memory[s], AssistantTurn(full_message))
                         ELSE hp1,
                         memory, held)
                /\ last' = IF first
                           THEN Call("chat_stream", hp1[memory[s]], ~b.opens, "", "")
                           ELSE NoCall
           ELSE \* a finished generator: StopIteration
                /\ b = Backend(TRUE, <<>>, FALSE)
                /\ gen' = [gen EXCEPT ![h].out = "stop"]
                /\ last' = NoCall
                /\ UNCHANGED <<memory, heap, held>>
    /\ UNCHANGED system_prompt

(* next() on a prompt_stream generator *)
NextPrompt(h, b) ==
    /\ gen[h].pc # "unused"
    /\ gen[h].kind \in {"prompt", "none"}
    /\ Scripted(gen[h].tokens, b.chunks)
    /\ Len(gen[h].tokens) + Len(b.chunks) <= MaxChunks
    /\ LET g == gen[h]
           s == g.sess
           first == g.pc = "created"
       IN  IF g.pc \in {"created", "suspended"}
           THEN /\ ~first => b.opens
                /\ gen' = [gen EXCEPT ![h] = Looped(g, b, g.full_message)]
                /\ last' = IF first
                           THEN Call("prompt_stream",
                                     TempMemory(s, g.prompt, g.use_memory),
                                     ~b.opens, "", "")
                           ELSE NoCall
           ELSE /\ b = Backend(TRUE, <<>>, FALSE)
                /\ gen' = [gen EXCEPT ![h].out = "stop"]
                /\ last' = NoCall
    /\ UNCHANGED <<system_prompt, memory, heap, held>>

(* Close with the append in a finally clause: GeneratorExit runs it. *)
CloseCommits(h) ==
    /\ gen[h].pc \in {"created", "suspended"}
    /\ gen' = [gen EXCEPT ![h] =
          Finished(IF gen[h].pc = "suspended" THEN "abandoned" ELSE "closed", gen[h].out)]
    /\ last' = NoCall
    /\ IF gen[h].pc = "suspended" /\ gen[h].kind = "chat"
       THEN Store(ListAppend(heap, memory[gen[h].sess], AssistantTurn(gen[h].full_message)),
                  memory, held)
       ELSE UNCHANGED <<memory, heap, held>>
    /\ UNCHANGED system_prompt

(* The consumer stops pulling: the generator object is closed (close(), or
   its collection), GeneratorExit is raised at the yield it is suspended at
   and leaves the frame; no line after the yield runs. *)
Close(h) ==
    /\ gen[h].pc \in {"created", "suspended"}
    /\ gen' = [gen EXCEPT ![h] =
          Finished(IF gen[h].pc = "suspended" THEN "abandoned" ELSE "closed", gen[h].out)]
    /\ last' = NoCall
    /\ UNCHANGED <<system_prompt, memory, heap, held>>

(* What the backend does during a drain by the call itself. *)
Drains ==
    {b \in Backends : /\ b.opens \/ (b.chunks = <<>> /\ b.raises)
                      /\ Scripted(<<>>, b.chunks)}

(* chat_stream(prompt, print_stream=True): the call itself drains the
   generator and returns None. *)
ChatStreamPrint(s, p, b) ==
    /\ Len(Mem(s)) + 2 <= MaxLen
    /\ LET hp1 == ListAppend(heap, memory[s], UserTurn(p))
           full_message == Accumulate("", b.chunks)
       IN  /\ Store(IF b.raises THEN hp1
                    ELSE ListAppend(hp1, memory[s], AssistantTurn(full_message)),
                    memory, held)
           /\ last' = Call("chat_stream", hp1[memory[s]], b.raises, "", "")
    /\ UNCHANGED <<system_prompt, gen>>

(* Backend streams all of whose chunks carry a token. *)
TokenDrains == {b \in Drains : \A i \in 1 .. Len(b.chunks) : YieldsToken(<<b.chunks[i]>>)}

(* prompt_stream(prompt, print_stream=True, use_memory) *)
PromptStreamPrint(s, p, use_memory, b) ==
    /\ last' = Call("prompt_stream", TempMemory(s, p, use_memory), b.raises, "", "")
    /\ UNCHANGED <<system_prompt, memory, heap, held, gen>>

----------------------------------------------------------------------------
(* The memory accessors *)

(* self.memory = self.memory[:1] where the code builds the list from
   self.system_prompt *)
ClearKeepsFirst(s) ==
    /\ LET l == NewList([memory EXCEPT ![s] = 0], held)
       IN  Store([heap EXCEPT ![l] = IF Mem(s) = <<>> THEN <<>> ELSE <<Mem(s)[1]>>],
                 [memory EXCEPT ![s] = l], held)
    /\ last' = NoCall
    /\ UNCHANGED <<system_prompt, gen>>

(* LLM.clear_memory: a new list object *)
ClearMemory(s) ==
    /\ LET l == NewList([memory EXCEPT ![s] = 0], held)
       IN  Store([heap EXCEPT ![l] = <<SystemTurn(system_prompt[s])>>],
                 [memory EXCEPT ![s] = l], held)
    /\ last' = NoCall
    /\ UNCHANGED <<system_prompt, gen>>

(* LLM.set_memory(memory) with the list the caller holds *)
SetMemory(s) ==
    /\ held # 0
    /\ Store(heap, [memory EXCEPT ![s] = held], held)
    /\ last' = NoCall
    /\ UNCHANGED <<system_prompt, gen>>

(* self.memory.extend(memory) where the code assigns self.memory *)
SetMemoryExtends(s, turns) ==
    /\ Store([heap EXCEPT ![memory[s]] = @ \o turns], memory, held)
    /\ last' = NoCall
    /\ UNCHANGED <<system_prompt, gen>>

(* llm.set_memory([...]) with a list display the caller keeps no reference
   to *)
SetMemoryDisplay(s, turns) ==
    /\ LET l == NewList([memory EXCEPT ![s] = 0], held)
       IN  Store([heap EXCEPT ![l] = turns], [memory EXCEPT ![s] = l], held)
    /\ last' = NoCall
    /\ UNCHANGED <<system_prompt, gen>>

(* m = llm.get_memory() *)
GetMemory(s) ==
    /\ Store(heap, memory, memory[s])
    /\ last' = NoCall
    /\ UNCHANGED <<system_prompt, gen>>

(* self.memory.insert(0, ...) where the code assigns self.memory[0] *)
ModifyInserts(s, text) ==
    /\ Store([heap EXCEPT ![memory[s]] = <<SystemTurn(text)>> \o @], memory, held)
    /\ last' = NoCall
    /\ UNCHANGED <<system_prompt, gen>>

(* del self.memory[0] and an append where the code assigns self.memory[0] *)
ModifyRemoves(s, text) ==
    /\ IF Mem(s) = <<>>
       THEN UNCHANGED <<memory, heap, held>>
       ELSE Store([heap EXCEPT ![memory[s]] = Append(Tail(@), SystemTurn(text))],
                  memory, held)
    /\ last' = NoCall
    /\ UNCHANGED <<system_prompt, gen>>

(* modify_system_prompt that also assigns self.system_prompt *)
ModifyUpdatesCache(s, text) ==
    /\ IF Mem(s) = <<>>
       THEN UNCHANGED <<memory, heap, held>>
       ELSE Store([heap EXCEPT ![memory[s]][1] = SystemTurn(text)], memory, held)
    /\ system_prompt' = [system_prompt EXCEPT ![s] = text]
    /\ last' = NoCall
    /\ UNCHANGED gen

(* LLM.modify_system_prompt: IndexError on an empty list *)
ModifySystemPrompt(s, text) ==
    /\ IF Mem(s) = <<>>
       THEN UNCHANGED <<memory, heap, held>>
       ELSE Store([heap EXCEPT ![memory[s]][1] = SystemTurn(text)], memory, held)
    /\ last' = NoCall
    /\ UNCHANGED <<system_prompt, gen>>

----------------------------------------------------------------------------
(* The caller's own lists *)

CallerLists ==
    { <<>>,
      <<UserTurn("p")>>,
      <<SystemTurn("T"), UserTurn("q"), AssistantTurn("r")>> }

CallerTurns == {UserTurn("q")}

(* m = [...] *)
CallerNew(turns) ==
    /\ LET l == NewList(memory, 0)
       IN  Store([heap EXCEPT ![l] = turns], memory, l)
    /\ last' = NoCall
    /\ UNCHANGED <<system_prompt, gen>>

(* m.append(turn) *)
CallerAppend(turn) ==
    /\ held # 0
    /\ Len(heap[held]) < MaxLen
    /\ Store(ListAppend(heap, held, turn), memory, held)
    /\ last' = NoCall
    /\ UNCHANGED <<system_prompt, gen>>

(* del m[i] *)
CallerRemove(i) ==
    /\ held # 0
    /\ i \in 1 .. Len(heap[held])
    /\ Store([heap EXCEPT ![held] = SubSeq(@, 1, i - 1) \o SubSeq(@, i + 1, Len(@))],
             memory, held)
    /\ last' = NoCall
    /\ UNCHANGED <<system_prompt, gen>>

(* m[i] = turn *)
CallerReplace(i, turn) ==
    /\ held # 0
    /\ i \in 1 .. Len(heap[held])
    /\ Store([heap EXCEPT ![held][i] = turn], memory, held)
    /\ last' = NoCall
    /\ UNCHANGED <<system_prompt, gen>>

----------------------------------------------------------------------------

(* Specifications.  Each is the session under one regime of use, with the
   inputs it draws named here. *)

(* A step of the program: the history variable stands still. *)
Step(A) == A /\ UNCHANGED started

(* The prompt each generator object is created with. *)
StreamPrompt(h) == IF h = 1 THEN "p" ELSE "q"

(* Blocking calls only, one after the other. *)
Next ==
    \/ \E s \in Sessions, p \in Prompts, r \in Completions : Step(Chat(s, p, r))
    \/ \E s \in Sessions, p \in Prompts, um \in BOOLEAN, r \in Completions :
            Step(Prompt(s, p, um, r))
    \/ \E s \in Sessions, p \in Prompts, b \in Drains : Step(ChatStreamPrint(s, p, b))
    \/ \E s \in Sessions : Step(ClearMemory(s))
    \/ \E s \in Sessions, turns \in CallerLists : Step(SetMemoryDisplay(s, turns))
    \/ \E s \in Sessions, t \in NewPrompts : Step(ModifySystemPrompt(s, t))

Spec == Init /\ [][Next]_vars

(* Generators pulled in any interleaving with each other and with the
   memory-writing calls. *)
StreamNext ==
    \/ \E s \in Sessions, r \in Completions : Step(Chat(s, "p", r))
    \/ \E s \in Sessions, h \in Handles : Step(ChatStream(s, StreamPrompt(h), h))
    \/ \E s \in Sessions, um \in BOOLEAN, h \in Handles :
            Step(PromptStream(s, StreamPrompt(h), um, h))
    \/ \E h \in Handles, b \in Resumptions : Step(NextChat(h, b))
    \/ \E h \in Handles, b \in Resumptions : Step(NextPrompt(h, b))
    \/ \E h \in Handles : Step(Close(h))
    \/ \E s \in Sessions : Step(ClearMemory(s))
    \/ \E s \in Sessions, turns \in CallerLists : Step(SetMemoryDisplay(s, turns))
    \/ \E s \in Sessions, t \in NewPrompts : Step(ModifySystemPrompt(s, t))

SpecStream == Init /\ [][StreamNext]_vars

(* Every kind of operation of the session, around one generator object. *)
AllNext ==
    \/ \E s \in Sessions, r \in Completions : Step(Chat(s, "p", r))
    \/ \E s \in Sessions, um \in BOOLEAN, r \in Completions : Step(Prompt(s, "q", um, r))
    \/ \E s \in Sessions : Step(ChatStream(s, "p", 1))
    \/ \E s \in Sessions, um \in BOOLEAN : Step(PromptStream(s, "q", um, 1))
    \/ \E h \in Handles, b \in Resumptions : Step(NextChat(h, b))
    \/ \E h \in Handles, b \in Resumptions : Step(NextPrompt(h, b))
    \/ \E h \in Handles : Step(Close(h))
    \/ \E s \in Sessions, b \in Drains : Step(ChatStreamPrint(s, "p", b))
    \/ \E s \in Sessions, um \in BOOLEAN, b \in TokenDrains :
            Step(PromptStreamPrint(s, "q", um, b))
    \/ \E s \in Sessions : Step(ClearMemory(s))
    \/ \E s \in Sessions, turns \in CallerLists : Step(SetMemoryDisplay(s, turns))
    \/ \E s \in Sessions, t \in NewPrompts : Step(ModifySystemPrompt(s, t))

SpecAll == Init /\ [][AllNext]_vars

(* The single-writer regime: an operation starts only when no generator is
   in flight, so a chat_stream call runs from its creation to its end with
   nothing in between.  started remembers the call in progress: its handle,
   its prompt and self.memory as the call found it; the next operation to
   start forgets it. *)
Idle == \A h \in Handles : gen[h].pc \notin {"created", "suspended"}

Starts(A) == Idle /\ A /\ started' = NotStarted

SoloNext ==
    \/ \E s \in Sessions, p \in Prompts, r \in Completions : Starts(Chat(s, p, r))
    \/ \E s \in Sessions, p \in Prompts, h \in Handles :
            /\ Idle
            /\ ChatStream(s, p, h)
            /\ started' = [live |-> TRUE, handle |-> h, prompt |-> p, memory |-> Mem(s)]
    \/ \E h \in Handles, b \in Resumptions : Step(NextChat(h, b))
    \/ \E h \in Handles : Step(Close(h))
    \/ \E s \in Sessions : Starts(ClearMemory(s))
    \/ \E s \in Sessions, t \in NewPrompts : Starts(ModifySystemPrompt(s, t))

SpecSolo == Init /\ [][SoloNext]_vars

(* A caller that keeps references to lists: the one get_memory returns, the
   one it hands to set_memory. *)
AliasNext ==
    \/ \E s \in Sessions, r \in Completions : Step(Chat(s, "p", r))
    \/ \E s \in Sessions, r \in Completions : Step(Prompt(s, "p", TRUE, r))
    \/ \E s \in Sessions : Step(ClearMemory(s))
    \/ \E s \in Sessions : Step(GetMemory(s))
    \/ \E s \in Sessions : Step(SetMemory(s))
    \/ \E turns \in CallerLists : Step(CallerNew(turns))
    \/ \E t \in CallerTurns : Step(CallerAppend(t))
    \/ \E i \in 1 .. MaxLen : Step(CallerRemove(i))
    \/ \E i \in 1 .. MaxLen, t \in CallerTurns : Step(CallerReplace(i, t))

SpecAlias == Init /\ [][AliasNext]_vars

----------------------------------------------------------------------------
(* Properties of the blocking calls (Spec) *)

(* C3: a chat(p) whose backend call answers R on a session whose memory is M
   sends the backend M + [{user, p}], leaves memory M + [{user, p},
   {assistant, R}] and returns R. *)
C3_ChatAppendsBoth ==
    [][\A s \in Sessions, p \in Prompts, r \in Replies :
          Chat(s, p, r) =>
            /\ last'.messages = Mem(s) \o <<UserTurn(p)>>
            /\ ~last'.raised /\ last'.reply = r /\ last'.ret = r
            /\ Mem(s)' = Mem(s) \o <<UserTurn(p), AssistantTurn(r)>>]_vars

(* C3 on a fresh session: memory is [{system, S}, {user, p}, {assistant, R}]
   and the call has returned R. *)
C3_Witness ==
    /\ last.op = "chat" /\ last.ret = "r"
    /\ last.messages = <<SystemTurn(DefaultPrompt), UserTurn("p")>>
    /\ Mem(1) = <<SystemTurn(DefaultPrompt), UserTurn("p"), AssistantTurn("r")>>

(* C5: a chat(p) whose backend call raises ends by raising, having made
   that one call, and leaves memory M + [{user, p}]: the user Turn stays
   and no assistant Turn follows it. *)
C5_ChatFailureKeepsUserTurn ==
    [][\A s \in Sessions, p \in Prompts :
          Chat(s, p, Raises) =>
            /\ last'.op = "chat" /\ last'.raised /\ last'.ret = ""
            /\ last'.messages = Mem(s) \o <<UserTurn(p)>>
            /\ Mem(s)' = Mem(s) \o <<UserTurn(p)>>]_vars

(* C5 after an earlier exchange: the failed call's user Turn is the last
   Turn of memory. *)
C5_Witness ==
    /\ last.op = "chat" /\ last.raised
    /\ Mem(1) = <<SystemTurn(DefaultPrompt), UserTurn("p"), AssistantTurn("r"),
                  UserTurn("q")>>

----------------------------------------------------------------------------
(* Properties of one chat_stream call at a time (SpecSolo) *)

(* The concatenation, in order, of a sequence of fragments. *)
RECURSIVE Concat(_)
Concat(fragments) ==
    IF fragments = <<>> THEN "" ELSE Head(fragments) \o Concat(Tail(fragments))

(* C1: the pull at which a chat_stream(p) generator finds the backend stream
   exhausted leaves memory equal to memory before the call followed by
   {user, p} and {assistant, A}, A the concatenation in order of the
   fragments the handle yielded. *)
C1_DrainedStreamCommits ==
    [][\A h \in Handles, s \in Sessions :
          (gen[h].pc \in {"created", "suspended"} /\ gen[h].sess = s
                /\ gen'[h].pc = "done") =>
            /\ started.live /\ started.handle = h /\ started.prompt = gen[h].prompt
            /\ Mem(s)' =
                  started.memory \o <<UserTurn(started.prompt),
                                      AssistantTurn(Concat(gen[h].yielded))>>]_vars

(* C1 on a fresh session: two fragments were yielded and the call is over. *)
C1_Witness ==
    /\ started.live /\ gen[started.handle].pc = "done"
    /\ Mem(1) = <<SystemTurn(DefaultPrompt), UserTurn("p"), AssistantTurn("ab")>>

(* C2: while a chat_stream(p) generator that was pulled and then closed
   before exhaustion is the last operation on the session, memory is memory
   before the call followed by {user, p} alone. *)
C2_AbandonedStreamCommitsNothing ==
    \A h \in Handles :
        (started.live /\ started.handle = h /\ gen[h].pc = "abandoned") =>
            Mem(1) = Append(started.memory, UserTurn(started.prompt))

(* C2 after an earlier exchange: the closed generator was pulled again and
   raised StopIteration. *)
C2_Witness ==
    /\ started.live /\ gen[started.handle].pc = "abandoned"
    /\ gen[started.handle].out = "stop"
    /\ Len(started.memory) = 3
    /\ Mem(1) = Append(started.memory, UserTurn(started.prompt))

Roles(turns) == [i \in 1 .. Len(turns) |-> turns[i].role]

(* user, assistant, user, assistant, ... after index 0 *)
Alternates(turns) ==
    \A i \in 2 .. Len(turns) :
        turns[i].role = IF i % 2 = 0 THEN "user" ELSE "assistant"

(* after index 0 only user and assistant Turns, every assistant Turn
   directly after a user Turn *)
Answers(turns) ==
    \A i \in 2 .. Len(turns) :
        /\ turns[i].role \in {"user", "assistant"}
        /\ turns[i].role = "assistant" => i > 2 /\ turns[i - 1].role = "user"

(* C10 as stated: the Turns after index 0 strictly alternate user,
   assistant, starting with user. *)
C10_StrictAlternation == \A s \in Sessions : Alternates(Mem(s))

(* C10: after index 0 every Turn is a user or an assistant Turn and every
   assistant Turn directly follows a user Turn, so no two assistant Turns
   are consecutive and the first Turn after index 0 is a user Turn. *)
C10_AssistantFollowsUser == \A s \in Sessions : Answers(Mem(s))

(* C10 after a failed or abandoned call and a successful one: two
   consecutive user Turns, the second one answered. *)
C10_Witness ==
    Roles(Mem(1)) = <<"system", "user", "user", "assistant">>

----------------------------------------------------------------------------
(* Properties of streams among other operations (SpecStream, SpecLazy) *)

(* C6: the pull at which the backend fails raises; the fragments yielded
   before it are the non-empty fragments delivered before it, none of them
   in the failing pull; that pull appends no assistant Turn (the user Turn
   only, when it is the first pull); every later pull leaves the generator
   failed, raises StopIteration and leaves memory alone. *)
C6_FailedStreamCommitsNothing ==
    [][\A h \in Handles, s \in Sessions :
          /\ (gen[h].pc \in {"created", "suspended"} /\ gen[h].kind = "chat"
                    /\ gen[h].sess = s /\ gen'[h].pc = "failed") =>
                /\ gen'[h].out = "raise"
                /\ gen[h].yielded = SelectSeq(gen[h].tokens, NonEmpty)
                /\ \A b \in Resumptions :
                      NextChat(h, b) =>
                          b.raises /\ SelectSeq(TokensOf(b.chunks), NonEmpty) = <<>>
                /\ Mem(s)' = IF gen[h].pc = "created"
                             THEN Append(Mem(s), UserTurn(gen[h].prompt))
                             ELSE Mem(s)
          /\ (gen[h].pc = "failed" /\ \E b \in Resumptions : NextChat(h, b)) =>
                /\ gen'[h].pc = "failed" /\ gen'[h].out = "stop"
                /\ memory' = memory /\ heap' = heap]_vars

(* C6 for a failure at the opening of the stream: the first pull raised,
   memory ends with the call's user Turn. *)
C6_Witness ==
    /\ last.op = "chat_stream" /\ last.raised
    /\ gen[2].pc = "failed" /\ gen[2].out = "raise"
    /\ Mem(1) = <<SystemTurn(DefaultPrompt), UserTurn("p"), AssistantTurn("r"),
                  UserTurn("q")>>

(* Creation of a generator, remembering self.memory as the call found it. *)
Creates(s, h, A) ==
    /\ A
    /\ started' = [live |-> TRUE, handle |-> h, prompt |-> StreamPrompt(h),
                   memory |-> Mem(s)]

LazyNext ==
    \/ \E s \in Sessions, r \in Completions : Step(Chat(s, "p", r))
    \/ \E s \in Sessions : Creates(s, 1, ChatStream(s, StreamPrompt(1), 1))
    \/ \E s \in Sessions, um \in BOOLEAN :
            Creates(s, 1, PromptStream(s, StreamPrompt(1), um, 1))
    \/ \E h \in Handles, b \in Resumptions : Step(NextChat(h, b))
    \/ \E h \in Handles, b \in Resumptions : Step(NextPrompt(h, b))
    \/ \E s \in Sessions : Step(ClearMemory(s))
    \/ \E s \in Sessions, t \in NewPrompts : Step(ModifySystemPrompt(s, t))

SpecLazy == Init /\ [][LazyNext]_vars

(* The message list of a streaming call of generator g, built from mem. *)
MessagesFrom(mem, sp, g) ==
    IF g.kind = "chat" \/ g.use_memory
    THEN Append(mem, UserTurn(g.prompt))
    ELSE <<SystemTurn(sp), UserTurn(g.prompt)>>

FirstPull(h) == gen[h].pc = "created" /\ gen'[h].pc \in {"suspended", "done", "failed"}

(* C8 as stated: the backend call of a stream receives the message list
   built from memory as it was when chat_stream / prompt_stream was called. *)
C8_FixedAtCreation ==
    [][\A h \in Handles, s \in Sessions :
          (FirstPull(h) /\ gen[h].sess = s /\ started.handle = h) =>
              last'.messages = MessagesFrom(started.memory, system_prompt[s], gen[h])]_vars

(* C8: the backend call of a stream is made by its first pull and receives
   the message list built from memory as it is at that pull; a later pull
   or memory mutation makes no other backend call for that stream. *)
C8_FixedAtFirstPull ==
    [][\A h \in Handles, s \in Sessions :
          /\ (FirstPull(h) /\ gen[h].sess = s) =>
                /\ last'.op = IF gen[h].kind = "chat" THEN "chat_stream" ELSE "prompt_stream"
                /\ last'.messages = MessagesFrom(Mem(s), system_prompt[s], gen[h])
          /\ (gen[h].pc # "created" /\ gen'[h] # gen[h]) => last' = NoCall]_vars

(* C8 with a chat between creation and first pull: the stream was created on
   a fresh session and its backend call received the chat's two Turns. *)
C8_Witness ==
    /\ started.memory = <<SystemTurn(DefaultPrompt)>>
    /\ gen[started.handle].pc = "suspended"
    /\ last.op \in {"chat_stream", "prompt_stream"}
    /\ last.messages = <<SystemTurn(DefaultPrompt), UserTurn("p"), AssistantTurn("r"),
                         UserTurn(started.prompt)>>

----------------------------------------------------------------------------
(* Properties of all the operations together (SpecAll) *)

(* A step of one of the ephemeral modes: a backend call by prompt or
   prompt_stream (prompt, prompt_stream draining itself, the first pull on a
   prompt_stream generator), the creation of such a generator, a later pull
   on it or its closing. *)
Ephemeral ==
    \/ last'.op \in {"prompt", "prompt_stream"}
    \/ \E h \in Handles : gen[h].pc = "unused" /\ gen'[h].kind = "prompt"
    \/ \E h \in Handles : gen[h].kind = "prompt" /\ gen'[h] # gen[h]

(* C4: no step of prompt or prompt_stream, with or without use_memory,
   whatever the backend does and however far the stream is pulled, changes
   memory: the list object and its contents are the same after it. *)
C4_EphemeralModesKeepMemory ==
    [][Ephemeral =>
          /\ \A s \in Sessions : Mem(s)' = Mem(s)
          /\ memory' = memory /\ heap' = heap]_vars

(* C4 for a partially pulled prompt_stream with use_memory after an
   exchange: a fragment was yielded, memory holds the exchange alone. *)
C4_Witness ==
    /\ gen[1].kind = "prompt" /\ gen[1].use_memory /\ gen[1].pc = "suspended"
    /\ gen[1].yielded = <<"a">>
    /\ Mem(1) = <<SystemTurn(DefaultPrompt), UserTurn("p"), AssistantTurn("r")>>

SystemFirst(turns) == turns # <<>> /\ turns[1].role = "system"

(* C9 as stated: memory is never empty and its element 0 is a system Turn. *)
C9_SystemFirstAlways == \A s \in Sessions : SystemFirst(Mem(s))

(* C9: a step takes memory from a non-empty list starting with a system
   Turn to a list that is empty or starts otherwise only when it is a
   set_memory call given such a list; every other operation keeps element 0
   a system Turn. *)
C9_SystemFirstUnlessSet ==
    [][\A s \in Sessions :
          (SystemFirst(Mem(s)) /\ ~SystemFirst(Mem(s)')) =>
              \E turns \in CallerLists :
                  ~SystemFirst(turns) /\ SetMemoryDisplay(s, turns)]_vars

(* C9 after a chat and modify_system_prompt: element 0 was replaced, the
   Turns after it stayed. *)
C9_Witness ==
    Mem(1) = <<SystemTurn("T"), UserTurn("p"), AssistantTurn("r")>>

----------------------------------------------------------------------------
(* Properties of the list get_memory returns (SpecCopy) *)

(* The caller takes the list get_memory returns and changes it, among
   calls of the session; it hands the session no list of its own. *)
CopyNext ==
    \/ \E s \in Sessions, r \in Completions : Step(Chat(s, "p", r))
    \/ \E s \in Sessions, r \in Completions : Step(Prompt(s, "p", TRUE, r))
    \/ \E s \in Sessions : Step(ClearMemory(s))
    \/ \E s \in Sessions : Step(GetMemory(s))
    \/ \E t \in CallerTurns : Step(CallerAppend(t))
    \/ \E i \in 1 .. MaxLen : Step(CallerRemove(i))
    \/ \E i \in 1 .. MaxLen, t \in CallerTurns : Step(CallerReplace(i, t))

SpecCopy == Init /\ [][CopyNext]_vars

(* A change the caller makes to the list it holds. *)
CallerMutates ==
    \/ \E t \in CallerTurns : CallerAppend(t)
    \/ \E i \in 1 .. MaxLen : CallerRemove(i)
    \/ \E i \in 1 .. MaxLen, t \in CallerTurns : CallerReplace(i, t)

(* C7 as stated: the list get_memory returned is a copy, so appending to
   it, removing or replacing an element of it leaves the session's memory as
   it was. *)
C7_GetMemoryReturnsCopy ==
    [][CallerMutates => \A s \in Sessions : Mem(s)' = Mem(s)]_vars

----------------------------------------------------------------------------
(* Properties of clear_memory and modify_system_prompt (SpecAll) *)

(* A step that makes no backend call and touches no generator, as every
   step of a memory accessor is. *)
Accessor == last' = NoCall /\ gen' = gen

(* C11: clear_memory leaves memory the one-Turn list [{system, p}], p the
   system prompt given at construction, whatever memory was before it. *)
C11_ClearRestoresConstructionPrompt ==
    [][\A s \in Sessions :
          (Accessor /\ ClearMemory(s)) => Mem(s)' = <<SystemTurn(DefaultPrompt)>>]_vars

(* C11 for a clear during a chat_stream in flight: the stream's user Turn
   and all that preceded it are gone. *)
C11_Witness ==
    /\ gen[1].kind = "chat" /\ gen[1].pc = "suspended"
    /\ Mem(1) = <<SystemTurn(DefaultPrompt)>>

(* C12: modify_system_prompt(t) on a non-empty memory replaces element 0
   by {system, t} and leaves the other Turns and self.system_prompt alone;
   prompt and prompt_stream without use_memory send [{system, p0},
   {user, q}], p0 the construction-time prompt; chat and prompt with
   use_memory send a list whose element 0 is memory's element 0. *)
C12_ModifyReplacesElementZeroOnly ==
    [][\A s \in Sessions :
          /\ \A t \in NewPrompts :
                (Accessor /\ Mem(s) # <<>> /\ ModifySystemPrompt(s, t)) =>
                    /\ Mem(s)' = [Mem(s) EXCEPT ![1] = SystemTurn(t)]
                    /\ system_prompt' = system_prompt
                    /\ system_prompt[s] = DefaultPrompt
          /\ \A p \in Prompts, r \in Completions :
                /\ (last'.op = "prompt" /\ Prompt(s, p, FALSE, r)) =>
                      last'.messages = <<SystemTurn(DefaultPrompt), UserTurn(p)>>
                /\ (last'.op = "prompt" /\ Mem(s) # <<>> /\ Prompt(s, p, TRUE, r)) =>
                      last'.messages[1] = Mem(s)[1]
                /\ (last'.op = "chat" /\ Mem(s) # <<>> /\ Chat(s, p, r)) =>
                      last'.messages[1] = Mem(s)[1]
          /\ \A h \in Handles :
                (FirstPull(h) /\ gen[h].kind = "prompt" /\ gen[h].sess = s
                      /\ ~gen[h].use_memory) =>
                    last'.messages = <<SystemTurn(DefaultPrompt), UserTurn(gen[h].prompt)>>]_vars

(* C12 after a chat and modify_system_prompt("T"): a prompt without
   use_memory was sent the construction-time prompt while element 0 of
   memory is {system, "T"}. *)
C12_Witness ==
    /\ last.op = "prompt"
    /\ last.messages = <<SystemTurn(DefaultPrompt), UserTurn("q")>>
    /\ Mem(1) = <<SystemTurn("T"), UserTurn("p"), AssistantTurn("r")>>

----------------------------------------------------------------------------
(* Properties of what a stream yields (SpecLazy) *)

(* C13: at every pull of a chat_stream or prompt_stream generator the
   fragments yielded so far are the non-empty contents of the chunks the
   backend delivered so far, in delivery order, each once: a pull that
   yields adds one fragment, a pull that ends the stream or fails adds
   none and has consumed only chunks of empty or missing content. *)
C13_YieldsNonEmptyFragmentsInOrder ==
    [][\A h \in Handles :
          /\ (gen'[h].pc = "suspended" /\ gen'[h] # gen[h]) =>
                /\ gen'[h].out = "yield"
                /\ Len(gen'[h].yielded) = Len(gen[h].yielded) + 1
                /\ gen'[h].yielded = SelectSeq(gen'[h].tokens, NonEmpty)
          /\ (gen[h].pc \in {"created", "suspended"}
                    /\ gen'[h].pc \in {"done", "failed"}) =>
                /\ gen'[h].out \in {"stop", "raise"}
                /\ gen[h].yielded = SelectSeq(gen[h].tokens, NonEmpty)
                /\ \A b \in Resumptions :
                      (NextChat(h, b) \/ NextPrompt(h, b)) =>
                          SelectSeq(TokensOf(b.chunks), NonEmpty) = <<>>]_vars

(* C13 for a stream whose first chunk has no text: the second chunk's
   fragment is the only one yielded. *)
C13_Witness ==
    /\ gen[1].pc = "suspended" /\ gen[1].out = "yield"
    /\ gen[1].tokens = <<"", "a">> /\ gen[1].yielded = <<"a">>

----------------------------------------------------------------------------
(* Properties of two sessions (SpecShare) *)

(* A = LLM(path, "S"); B = LLM(path, "T") *)
ConstructTwo ==
    /\ system_prompt = [s \in {1, 2} |-> IF s = 1 THEN DefaultPrompt ELSE "T"]
    /\ memory = [s \in {1, 2} |-> s]
    /\ heap = [l \in ListIds |-> IF l = 1 THEN <<SystemTurn(DefaultPrompt)>>
                                 ELSE IF l = 2 THEN <<SystemTurn("T")>> ELSE <<>>]

InitTwo ==
    /\ ConstructTwo
    /\ held = 0
    /\ gen = [h \in Handles |-> NoGen]
    /\ last = NoCall
    /\ started = NotStarted

(* Backend streams of one fragment that end without failure. *)
ShareDrains == {b \in TokenDrains : Len(b.chunks) = 1 /\ ~b.raises}

(* The public operations on two sessions; the caller passes the list one
   get_memory returned to a set_memory. *)
ShareNext ==
    \/ \E s \in Sessions, r \in Replies : Step(Chat(s, "p", r))
    \/ \E s \in Sessions, b \in ShareDrains : Step(ChatStreamPrint(s, "q", b))
    \/ \E s \in Sessions, t \in NewPrompts : Step(ModifySystemPrompt(s, t))
    \/ \E s \in Sessions : Step(ClearMemory(s))
    \/ \E s \in Sessions : Step(GetMemory(s))
    \/ \E s \in Sessions : Step(SetMemory(s))

SpecShare == InitTwo /\ [][ShareNext]_vars

(* An operation on session a that writes its memory. *)
WritesOn(a) ==
    \/ \E r \in Replies : Chat(a, "p", r)
    \/ \E b \in ShareDrains : ChatStreamPrint(a, "q", b)
    \/ \E t \in NewPrompts : ModifySystemPrompt(a, t)

(* C14 as stated: no two sessions share a conversation, so a chat, a
   chat_stream or a modify_system_prompt on one session leaves what
   get_memory returns on the other as it was. *)
C14_SessionsShareNothing ==
    [][\A a \in Sessions, b \in Sessions :
          (a # b /\ WritesOn(a)) => Mem(b)' = Mem(b)]_vars

----------------------------------------------------------------------------
(* Properties of the steps of one chat_stream call (SpecSolo) *)

IsAssistant(turn) == turn.role = "assistant"

AssistantCount(turns) == Len(SelectSeq(turns, IsAssistant))

(* C15: while the generator of a chat_stream call is created and not yet
   pulled memory is as the call found it; while it is suspended at a yield
   memory is that plus the user Turn, with no assistant Turn for the call;
   the pull that finds the backend stream exhausted appends exactly one
   assistant Turn, as the last Turn; a pull on the finished generator
   raises StopIteration and leaves memory alone. *)
C15_CommitOnlyAtExhaustion ==
    [][\A h \in Handles, s \in Sessions :
          /\ (started'.live /\ started'.handle = h /\ gen'[h].pc = "created") =>
                Mem(s)' = started'.memory
          /\ (started'.live /\ started'.handle = h /\ gen'[h].pc = "suspended") =>
                Mem(s)' = Append(started'.memory, UserTurn(started'.prompt))
          /\ (gen[h].pc \in {"created", "suspended"} /\ gen'[h].pc = "done") =>
                /\ Len(Mem(s)') = Len(started.memory) + 2
                /\ AssistantCount(Mem(s)') = AssistantCount(started.memory) + 1
                /\ IsAssistant(Mem(s)'[Len(Mem(s)')])
          /\ (gen[h].pc = "done" /\ \E b \in Resumptions : NextChat(h, b)) =>
                /\ gen'[h].pc = "done" /\ gen'[h].out = "stop"
                /\ memory' = memory /\ heap' = heap]_vars

(* C15 for a backend stream without fragments: the first pull finished the
   call with an empty assistant Turn and the generator was pulled again. *)
C15_Witness ==
    /\ started.live /\ gen[started.handle].pc = "done"
    /\ gen[started.handle].out = "stop" /\ last = NoCall
    /\ Mem(1) = <<SystemTurn(DefaultPrompt), UserTurn("p"), AssistantTurn("")>>

----------------------------------------------------------------------------
(* Properties of the single-writer regime without failures (SpecSingle) *)

(* started with a count of the chat / chat_stream calls completed since
   construction or the last clear_memory. *)
Tally(st, n) ==
    [live |-> st.live, handle |-> st.handle, prompt |-> st.prompt,
     memory |-> st.memory, calls |-> n]

InitSingle ==
    /\ Construct(DefaultPrompt)
    /\ held = 0
    /\ gen = [h \in Handles |-> NoGen]
    /\ last = NoCall
    /\ started = Tally(NotStarted, 0)

(* Each chat returns and each chat_stream generator is pulled to exhaustion
   before the next operation starts; the backend never fails, no generator
   is closed and set_memory is not called. *)
SingleNext ==
    \/ \E s \in Sessions, p \in Prompts, r \in Replies :
            /\ Idle
            /\ Chat(s, p, r)
            /\ started' = Tally(NotStarted, started.calls + 1)
    \/ \E s \in Sessions, p \in Prompts, h \in Handles :
            /\ Idle
            /\ ChatStream(s, p, h)
            /\ started' = Tally([live |-> TRUE, handle |-> h, prompt |-> p,
                                 memory |-> Mem(s)], started.calls)
    \/ \E h \in Handles, b \in Resumptions :
            /\ b.opens /\ ~b.raises
            /\ gen[h].pc \in {"created", "suspended"}
            /\ NextChat(h, b)
            /\ started' = IF gen'[h].pc = "done"
                          THEN [started EXCEPT !.calls = @ + 1]
                          ELSE started
    \/ \E s \in Sessions :
            Idle /\ ClearMemory(s) /\ started' = Tally(NotStarted, 0)
    \/ \E s \in Sessions, t \in NewPrompts :
            Idle /\ ModifySystemPrompt(s, t) /\ started' = Tally(NotStarted, started.calls)

SpecSingle == InitSingle /\ [][SingleNext]_vars

(* C16: in the single-writer regime memory is one system Turn followed by
   strictly alternating user and assistant Turns, two per completed call
   (and the user Turn of a stream being pulled); the n-th chat or
   chat_stream call to complete since the last clear leaves its user Turn
   at index 2n-1 and its assistant Turn at index 2n, after the Turns that
   were there before it, unchanged. *)
C16_SingleWriterAlternation ==
    [][\A s \in Sessions :
          LET n == started'.calls
              M == Mem(s)'
          IN  /\ SystemFirst(M) /\ Alternates(M)
              /\ Len(M) = 1 + 2 * n + (IF \E h \in Handles : gen'[h].pc = "suspended"
                                       THEN 1 ELSE 0)
              /\ \A p \in Prompts, r \in Replies :
                    (last'.op = "chat" /\ Chat(s, p, r)) =>
                        /\ SubSeq(M, 1, 2 * n - 1) = Mem(s)
                        /\ M[2 * n] = UserTurn(p) /\ M[2 * n + 1] = AssistantTurn(r)
              /\ \A h \in Handles :
                    (gen[h].pc \in {"created", "suspended"} /\ gen'[h].pc = "done") =>
                        /\ SubSeq(M, 1, 2 * n - 1) = started.memory
                        /\ M[2 * n] = UserTurn(started.prompt)
                        /\ M[2 * n + 1] = AssistantTurn(Concat(gen[h].yielded))]_vars

(* C16 after a chat and a drained chat_stream: the second call's Turns are
   at indices 3 and 4. *)
C16_Witness ==
    /\ started.calls = 2 /\ Idle
    /\ Mem(1) = <<SystemTurn(DefaultPrompt), UserTurn("p"), AssistantTurn("r"),
                  UserTurn("q"), AssistantTurn("ab")>>

----------------------------------------------------------------------------
(* The adapter's seed conversion (SpecGui) *)

(* The loop of _memory_to_chatbot without "current_user = None" after a
   pair: a user Turn answers every assistant Turn that follows it. *)
RECURSIVE LoopReuses(_, _, _)
LoopReuses(history, pairs, current_user) ==
    IF history = <<>> THEN pairs
    ELSE LET msg == Head(history)
         IN  IF msg.role = "user"
             THEN LoopReuses(Tail(history), pairs, <<msg.content>>)
             ELSE IF msg.role = "assistant" /\ current_user # <<>>
             THEN LoopReuses(Tail(history),
                             Append(pairs, <<current_user[1], msg.content>>),
                             current_user)
             ELSE LoopReuses(Tail(history), pairs, current_user)

MemoryToChatbotReuses(history) == LoopReuses(history, <<>>, <<>>)

(* The for loop of _memory_to_chatbot over the rest of history;
   current_user is <<>> for None and <<content>> otherwise. *)
RECURSIVE Loop(_, _, _)
Loop(history, pairs, current_user) ==
    IF history = <<>> THEN pairs
    ELSE LET msg == Head(history)
         IN  IF msg.role = "user"
             THEN Loop(Tail(history), pairs, <<msg.content>>)
             ELSE IF msg.role = "assistant" /\ current_user # <<>>
             THEN Loop(Tail(history),
                       Append(pairs, <<current_user[1], msg.content>>),
                       <<>>)
             ELSE Loop(Tail(history), pairs, current_user)

(* _memory_to_chatbot *)
memory_to_chatbot(history) == Loop(history, <<>>, <<>>)

(* initial_history = _memory_to_chatbot(self.llm.get_memory()): a new list
   object, which the interface holds. *)
Render(s) ==
    /\ LET l == NewList(memory, 0)
       IN  Store([heap EXCEPT ![l] = memory_to_chatbot(Mem(s))], memory, l)
    /\ last' = NoCall
    /\ UNCHANGED <<system_prompt, gen>>

GuiTurns ==
    {SystemTurn(DefaultPrompt), UserTurn("p"), UserTurn("q"),
     AssistantTurn("r"), AssistantTurn("a")}

(* The memories a session can hold when the interface is rendered: any
   list, as set_memory accepts any. *)
Histories == UNION {[1 .. k -> GuiTurns] : k \in 0 .. MaxLen}

InitGui ==
    /\ system_prompt = [s \in {1} |-> DefaultPrompt]
    /\ memory = [s \in {1} |-> 1]
    /\ \E history \in Histories :
          heap = [l \in ListIds |-> IF l = 1 THEN history ELSE <<>>]
    /\ held = 0
    /\ gen = [h \in Handles |-> NoGen]
    /\ last = NoCall
    /\ started = NotStarted

GuiNext == \E s \in Sessions : Step(Render(s))

SpecGui == InitGui /\ [][GuiNext]_vars

(* The assistant Turns of history that yield a pair: the Turns between the
   most recent user Turn before them and them are all system Turns. *)
Answered(history) ==
    {i \in 1 .. Len(history) :
        /\ history[i].role = "assistant"
        /\ \E j \in 1 .. (i - 1) :
              /\ history[j].role = "user"
              /\ \A k \in (j + 1) .. (i - 1) : history[k].role = "system"}

(* The user Turn the assistant Turn at i answers: the last one before it. *)
Asked(history, i) ==
    CHOOSE j \in 1 .. (i - 1) :
        /\ history[j].role = "user"
        /\ \A k \in (j + 1) .. (i - 1) : history[k].role # "user"

(* The pairs of the Turns up to index i, in order. *)
RECURSIVE PairsUpTo(_, _)
PairsUpTo(history, i) ==
    IF i = 0 THEN <<>>
    ELSE PairsUpTo(history, i - 1) \o
         (IF i \in Answered(history)
          THEN << <<history[Asked(history, i)].content, history[i].content>> >>
          ELSE <<>>)

(* C17: the list render takes from _memory_to_chatbot holds, in order, one
   pair (user content, assistant content) for each assistant Turn that has
   a user Turn before it with no assistant Turn and no later user Turn in
   between; system Turns, assistant Turns with no pending user Turn,
   superseded user Turns and a trailing user Turn give no pair. *)
C17_SeedPairs ==
    [][\A s \in Sessions :
          Render(s) => held' # 0 /\ heap'[held'] = PairsUpTo(Mem(s), Len(Mem(s)))]_vars

(* C17 for a memory with a superseded user Turn, an answered one and a
   trailing one: one pair. *)
C17_Witness ==
    /\ held # 0 /\ heap[held] = << <<"q", "r">> >>
    /\ Mem(1) = <<SystemTurn(DefaultPrompt), UserTurn("p"), UserTurn("q"),
                  AssistantTurn("r"), UserTurn("p")>>

----------------------------------------------------------------------------
(* Properties of a stream not yet pulled (SpecStream) *)

(* C18: chat_stream(p) returning its generator writes no memory and calls
   no backend, and neither does closing the generator before any pull; the
   first pull appends {user, p} and calls the backend with the list that
   ends with it, whether the stream opens or not. *)
C18_NothingRunsBeforeFirstPull ==
    [][\A h \in Handles, s \in Sessions :
          /\ (gen[h].pc = "unused" /\ gen'[h].kind = "chat") =>
                /\ gen'[h].pc = "created"
                /\ memory' = memory /\ heap' = heap /\ last' = NoCall
          /\ (gen[h].pc = "created" /\ gen'[h].pc = "closed") =>
                memory' = memory /\ heap' = heap /\ last' = NoCall
          /\ (FirstPull(h) /\ gen[h].kind = "chat" /\ gen[h].sess = s) =>
                /\ last'.op = "chat_stream"
                /\ last'.messages = Append(Mem(s), UserTurn(gen[h].prompt))
                /\ SubSeq(Mem(s)', 1, Len(Mem(s)) + 1) =
                      Append(Mem(s), UserTurn(gen[h].prompt))]_vars

(* C18 after an exchange: a second generator is created and not pulled,
   the first was closed without a pull, memory holds the exchange alone. *)
C18_Witness ==
    /\ gen[1].pc = "closed" /\ gen[1].out = "none"
    /\ gen[2].kind = "chat" /\ gen[2].pc = "created"
    /\ Mem(1) = <<SystemTurn(DefaultPrompt), UserTurn("p"), AssistantTurn("r")>>

----------------------------------------------------------------------------
(* Properties of two chat_stream generators pulled in turn (SpecPair) *)

(* Two chat_stream calls on a fresh session: started remembers memory as
   the first call found it and the fragments each generator has yielded. *)
InitPair ==
    /\ Construct(DefaultPrompt)
    /\ held = 0
    /\ gen = [h \in Handles |-> NoGen]
    /\ last = NoCall
    /\ started = [memory |-> <<>>, yielded |-> [h \in {1, 2} |-> <<>>]]

(* The generators are created and pulled in any order, the backend does
   not fail and nothing else is called. *)
PairNext ==
    \/ \E s \in Sessions, h \in {1, 2} :
            /\ ChatStream(s, StreamPrompt(h), h)
            /\ started' = IF h = 1 THEN [started EXCEPT !.memory = Mem(s)] ELSE started
    \/ \E h \in {1, 2}, b \in Resumptions :
            /\ b.opens /\ ~b.raises
            /\ gen[h].pc \in {"created", "suspended"}
            /\ NextChat(h, b)
            /\ started' = IF gen'[h].pc = "suspended"
                          THEN [started EXCEPT !.yielded[h] = gen'[h].yielded]
                          ELSE started

SpecPair == InitPair /\ [][PairNext]_vars

(* The Turns memory has grown by since the first call was made. *)
Added(s) == SubSeq(Mem(s), Len(started.memory) + 1, Len(Mem(s)))

(* C19: when both generators are exhausted memory is memory as the first
   call found it followed by four Turns: each call's user Turn once and each
   call's assistant Turn once, its content the concatenation of that
   generator's own fragments, each user Turn before its call's assistant
   Turn. *)
C19_NoTurnLostOrDuplicated ==
    \A s \in Sessions :
        (gen[1].pc = "done" /\ gen[2].pc = "done") =>
            /\ SubSeq(Mem(s), 1, Len(started.memory)) = started.memory
            /\ Len(Added(s)) = 4
            /\ \E u1, a1, u2, a2 \in 1 .. 4 :
                  /\ {u1, a1, u2, a2} = 1 .. 4
                  /\ u1 < a1 /\ u2 < a2
                  /\ Added(s)[u1] = UserTurn(StreamPrompt(1))
                  /\ Added(s)[a1] = AssistantTurn(Concat(started.yielded[1]))
                  /\ Added(s)[u2] = UserTurn(StreamPrompt(2))
                  /\ Added(s)[a2] = AssistantTurn(Concat(started.yielded[2]))

(* C19 for the interleaving user1, user2, assistant1, assistant2, the first
   generator having yielded two fragments and the second one. *)
C19_Witness ==
    /\ gen[1].pc = "done" /\ gen[2].pc = "done"
    /\ Mem(1) = <<SystemTurn(DefaultPrompt), UserTurn("p"), UserTurn("q"),
                  AssistantTurn("ab"), AssistantTurn("a")>>

----------------------------------------------------------------------------
(* Properties of a chat_stream whose session's memory is replaced while the
   generator is suspended (SpecSwap) *)

(* One chat_stream call on a session: started remembers whether
   memory was replaced while the generator stood at a yield, the list it was
   replaced with, and the fragments the generator has yielded. *)
InitSwap ==
    /\ Construct(DefaultPrompt)
    /\ held = 0
    /\ gen = [h \in Handles |-> NoGen]
    /\ last = NoCall
    /\ started = [replaced |-> FALSE, memory |-> <<>>, yielded |-> <<>>]

(* After any blocking chats the generator is created and pulled;
   clear_memory or set_memory may be called any number of times before its
   first pull and between two pulls. *)
SwapNext ==
    \/ \E s \in Sessions, r \in Completions :
            gen[1].pc = "unused" /\ Step(Chat(s, "q", r))
    \/ \E s \in Sessions : Step(ChatStream(s, "p", 1))
    \/ \E s \in Sessions, turns \in CallerLists :
            gen[1].pc = "created" /\ Step(SetMemoryDisplay(s, turns))
    \/ \E s \in Sessions : gen[1].pc = "created" /\ Step(ClearMemory(s))
    \/ \E b \in Resumptions :
            /\ gen[1].pc \in {"created", "suspended"}
            /\ NextChat(1, b)
            /\ started' = IF gen'[1].pc = "suspended"
                          THEN [started EXCEPT !.yielded = gen'[1].yielded]
                          ELSE started
    \/ \E s \in Sessions :
            /\ gen[1].pc = "suspended"
            /\ ClearMemory(s)
            /\ started' = [started EXCEPT !.replaced = TRUE,
                                          !.memory = <<SystemTurn(DefaultPrompt)>>]
    \/ \E s \in Sessions, turns \in CallerLists :
            /\ gen[1].pc = "suspended"
            /\ SetMemoryDisplay(s, turns)
            /\ started' = [started EXCEPT !.replaced = TRUE, !.memory = turns]

SpecSwap == InitSwap /\ [][SwapNext]_vars

(* C20: a chat_stream generator drained after clear_memory or set_memory
   replaced memory while it stood at a yield leaves memory equal to the
   replacing list followed by the assistant Turn, its content the
   concatenation of the fragments yielded: the call's user Turn is in the
   list that was replaced, not in memory. *)
C20_CommitGoesToCurrentMemory ==
    \A s \in Sessions :
        (gen[1].pc = "done" /\ started.replaced) =>
            Mem(s) = Append(started.memory, AssistantTurn(Concat(started.yielded)))

(* C20 after clear_memory: the system Turn and the assistant Turn, no user
   Turn between them. *)
C20_Witness ==
    /\ gen[1].pc = "done" /\ started.replaced
    /\ Mem(1) = <<SystemTurn(DefaultPrompt), AssistantTurn("ab")>>

====
